---------------------------- MODULE Spec2Model ----------------------------
(***************************************************************************)
(* A model of docs/generate_pages.py: the batch transform that turns a     *)
(* directory of match JSON files into per-game pages, per-series index     *)
(* pages and a global index.                                               *)
(*                                                                         *)
(* Strings the program takes apart (file names, series bodies, folder      *)
(* names) are sequences of one-character strings; strings it only passes   *)
(* around (team names) are TLA+ strings.  A Python dict is a function      *)
(* whose DOMAIN is the set of keys present, so d.get(k, default) is Get.   *)
(*                                                                         *)
(* Five specifications share the variables:                                *)
(*   SpecName   FILENAME_RE and the series key of one file name            *)
(*   SpecLabel  pretty_team_name_from_body on one series body              *)
(*   SpecMatch  generate_match_html on one match record                    *)
(*   Spec       the main processing loop and the main index                *)
(*   SpecOrder  the main loop with the series taken in any order           *)
(***************************************************************************)
EXTENDS Integers, Sequences, FiniteSets, TLC

VARIABLES
    pc,             \* position of the script
    fname,          \* SpecName: os.path.basename(fp)
    ident,          \* SpecName: what lines 235-242 derive from fname
    series_body,    \* SpecLabel: argument of pretty_team_name_from_body
    pretty_name,    \* SpecLabel: its result
    data,           \* SpecMatch: the loaded match record
    page,           \* SpecMatch: what generate_match_html builds
    disk,           \* Spec: opendotaraw/, (tournament, file name) -> file
    tournaments,    \* Spec: the dict of lines 84-90
    pending,        \* Spec: tournaments the outer loop has yet to take
    cur,            \* Spec: tourn_name of the outer loop
    series_groups,  \* Spec: series of tourn_name yet to be processed
    tournament_series_index,
    out_files,      \* Spec: matches/, path -> what was last written there
    printed,        \* Spec: the lines printed so far
    series_log,     \* Spec: per_game_meta and series_winner of each series written
    main_index      \* Spec: main/index.html

nameVars  == <<fname, ident>>
labelVars == <<series_body, pretty_name>>
matchVars == <<data, page>>
mainVars  == <<disk, tournaments, pending, cur, series_groups,
               tournament_series_index, out_files, printed, series_log, main_index>>

vars == <<pc, nameVars, labelVars, matchVars, mainVars>>

---------------------------------------------------------------------------
(* Bounds *)

\* longest file-name stem (the part before ".json") drawn in SpecName
MaxStem == 6

\* longest series body drawn in SpecLabel
MaxBody == 5

\* longest picks_bans list drawn in SpecMatch
MaxDraft == 2

\* most files under opendotaraw/ drawn in Spec and SpecOrder
MaxFiles == 3

---------------------------------------------------------------------------
(* Generic helpers *)

\* dict.get(k, default)
Get(d, k, default) == IF k \in DOMAIN d THEN d[k] ELSE default

RECURSIVE SeqsUpTo(_, _)
SeqsUpTo(S, n) ==
    IF n = 0 THEN {<<>>}
    ELSE LET r == SeqsUpTo(S, n - 1)
         IN  r \cup {Append(s, c) : s \in {x \in r : Len(x) = n - 1}, c \in S}

MinOf(S) == CHOOSE i \in S : \A j \in S : i <= j

\* the placeholder of a variable a specification does not use
Unused == <<>>

---------------------------------------------------------------------------
(* Filename / identity resolver: lines 31, 88, 233-242 *)

Digits == {"0", "1", "2", "3", "4", "5", "6", "7", "8", "9"}

\* str.lower() and re.IGNORECASE on the letters the pattern names
LowerChar(c) ==
    CASE c = "G" -> "g" [] c = "J" -> "j" [] c = "S" -> "s"
      [] c = "O" -> "o" [] c = "N" -> "n" [] OTHER -> c

DotJson == <<".", "j", "s", "o", "n">>

\* f.lower().endswith(".json")
EndsWithJson(s) ==
    /\ Len(s) >= 5
    /\ \A i \in 1..5 : LowerChar(s[Len(s) - 5 + i]) = DotJson[i]

DigitValue(c) ==
    CASE c = "0" -> 0 [] c = "1" -> 1 [] c = "2" -> 2 [] c = "3" -> 3
      [] c = "4" -> 4 [] c = "5" -> 5 [] c = "6" -> 6 [] c = "7" -> 7
      [] c = "8" -> 8 [] c = "9" -> 9

\* int(m.group("gnum"))
RECURSIVE IntOf(_)
IntOf(ds) ==
    IF ds = <<>> THEN 0
    ELSE 10 * IntOf(SubSeq(ds, 1, Len(ds) - 1)) + DigitValue(ds[Len(ds)])

NoMatch == [matched |-> FALSE]

\* _G(?P<gnum>\d+)\.json$ matched at position j, ignoring case
TailMatchesAt(s, j) ==
    LET n == Len(s)
    IN  /\ j + 1 <= n
        /\ s[j] = "_"
        /\ LowerChar(s[j + 1]) = "g"
        /\ j + 2 <= n - 5
        /\ \A i \in (j + 2)..(n - 5) : s[i] \in Digits
        /\ EndsWithJson(s)

\* as FILENAME_RE with the g of the suffix case-sensitive
TailMatchesAtCaseSensitive(s, j) ==
    TailMatchesAt(s, j) /\ s[j + 1] = "G"

TailAt(s, j) == TailMatchesAt(s, j)

\* FILENAME_RE.match(fname): [^_]+ is everything before the first "_",
\* .+? is the shortest non-empty body after which the tail matches
FILENAME_RE(s) ==
    LET n  == Len(s)
        us == {i \in 1..n : s[i] = "_"}
    IN  IF us = {} THEN NoMatch
        ELSE LET p  == MinOf(us)
                 ks == {k \in 1..(n - p) : TailAt(s, p + k + 1)}
             IN  IF p = 1 \/ ks = {} THEN NoMatch
                 ELSE LET k == MinOf(ks)
                      IN  [matched |-> TRUE,
                           prefix  |-> SubSeq(s, 1, p - 1),
                           body    |-> SubSeq(s, p + 1, p + k),
                           gnum    |-> SubSeq(s, p + k + 3, n - 5)]

\* prefix.split(".")[0]
SplitDotFirst(s) ==
    LET ds == {i \in 1..Len(s) : s[i] = "."}
    IN  IF ds = {} THEN s ELSE SubSeq(s, 1, MinOf(ds) - 1)

\* the series id taken to be the whole prefix
WholePrefix(s) == s

SeriesId(prefix) == SplitDotFirst(prefix)

\* f"{series_id}.{body}"
SeriesKey(prefix, body) == SeriesId(prefix) \o <<".">> \o body

\* lines 234-242 for one file: the entry appended to series_groups, or
\* nothing (continue) when the name does not match
ResolveIdentity(s) ==
    LET m == FILENAME_RE(s)
    IN  IF ~m.matched THEN [grouped |-> FALSE]
        ELSE [grouped    |-> TRUE,
              series_key |-> SeriesKey(m.prefix, m.body),
              game_no    |-> IntOf(m.gnum),
              prefix     |-> m.prefix,
              body       |-> m.body]

NameAlphabet == {"1", ".", "_", "G", "g"}

JsonExts == {DotJson, <<".", "J", "S", "O", "N">>}

\* the names line 88 keeps: any stem, then .json in either case
ListedNames == {st \o e : st \in SeqsUpTo(NameAlphabet, MaxStem), e \in JsonExts}

IdleName  == fname = Unused /\ ident = Unused
IdleLabel == series_body = Unused /\ pretty_name = Unused
IdleMatch == data = Unused /\ page = Unused
IdleMain  ==
    /\ disk = Unused /\ tournaments = Unused /\ pending = Unused /\ cur = Unused
    /\ series_groups = Unused /\ tournament_series_index = Unused
    /\ out_files = Unused /\ printed = Unused /\ series_log = Unused
    /\ main_index = Unused

InitName ==
    /\ pc = "resolve"
    /\ fname \in ListedNames
    /\ ident = Unused
    /\ IdleLabel /\ IdleMatch /\ IdleMain

Resolve ==
    /\ pc = "resolve"
    /\ ident' = ResolveIdentity(fname)
    /\ pc' = "resolved"
    /\ UNCHANGED <<fname, labelVars, matchVars, mainVars>>

NextName == Resolve

SpecName == InitName /\ [][NextName]_vars

\* the claim's form <prefix>_<body>_G<digits>.<ext>, read off the name
\* without the matcher: a split into four non-empty parts
HasForm(s, gs) ==
    \E p \in 2..Len(s) : \E q \in (p + 2)..Len(s) :
        /\ s[p] = "_"
        /\ \A i \in 1..(p - 1) : s[i] # "_"
        /\ s[q] = "_"
        /\ q + 1 <= Len(s) /\ s[q + 1] \in gs
        /\ q + 2 <= Len(s) - 5
        /\ \A i \in (q + 2)..(Len(s) - 5) : s[i] \in Digits
        /\ EndsWithJson(s)

FormParts(s) ==
    LET p == MinOf({i \in 1..Len(s) : s[i] = "_"})
        q == CHOOSE j \in (p + 2)..Len(s) :
                 /\ s[j] = "_" /\ LowerChar(s[j + 1]) = "g"
                 /\ \A i \in (j + 2)..(Len(s) - 5) : s[i] \in Digits
    IN  [prefix |-> SubSeq(s, 1, p - 1),
         body   |-> SubSeq(s, p + 1, q - 1),
         digits |-> SubSeq(s, q + 2, Len(s) - 5)]

LeadingComponent(prefix) ==
    IF \E i \in 1..Len(prefix) : prefix[i] = "."
    THEN SubSeq(prefix, 1, MinOf({i \in 1..Len(prefix) : prefix[i] = "."}) - 1)
    ELSE prefix

---------------------------------------------------------------------------
(* Display label: pretty_team_name_from_body, lines 49-54 *)

\* str.replace(old, new): every non-overlapping occurrence, left to right
RECURSIVE Replace(_, _, _)
Replace(s, old, new) ==
    IF Len(s) < Len(old) THEN s
    ELSE IF SubSeq(s, 1, Len(old)) = old
         THEN new \o Replace(SubSeq(s, Len(old) + 1, Len(s)), old, new)
         ELSE <<s[1]>> \o Replace(Tail(s), old, new)

Contains(s, old) ==
    \E i \in 1..(Len(s) - Len(old) + 1) : SubSeq(s, i, i + Len(old) - 1) = old

Tok_vs == <<"_", "v", "s", "_">>
Tok_VS == <<"_", "V", "S", "_">>
Tok_v  == <<"_", "v", "_">>
Tok_u  == <<"_">>
Sp_vs  == <<" ", "v", "s", " ">>
Sp_v   == <<" ", "v", " ">>
Sp_u   == <<" ">>

\* the label C7 describes: only the first token, in priority order, that
\* occurs in the body is replaced
FirstMatchLabel(body) ==
    IF Contains(body, Tok_vs) THEN Replace(body, Tok_vs, Sp_vs)
    ELSE IF Contains(body, Tok_VS) THEN Replace(body, Tok_VS, Sp_vs)
    ELSE IF Contains(body, Tok_v) THEN Replace(body, Tok_v, Sp_v)
    ELSE Replace(body, Tok_u, Sp_u)

pretty_team_name_from_body(body) ==
    LET s1 == Replace(body, Tok_vs, Sp_vs)
        s2 == Replace(s1, Tok_VS, Sp_vs)
        s3 == Replace(s2, Tok_v, Sp_v)
    IN  Replace(s3, Tok_u, Sp_u)

BodyAlphabet == {"_", "v", "s", "V", "S", "a"}

InitLabel ==
    /\ pc = "label"
    /\ series_body \in SeqsUpTo(BodyAlphabet, MaxBody) \ {<<>>}
    /\ pretty_name = Unused
    /\ IdleName /\ IdleMatch /\ IdleMain

Label ==
    /\ pc = "label"
    /\ pretty_name' = pretty_team_name_from_body(series_body)
    /\ pc' = "labelled"
    /\ UNCHANGED <<nameVars, series_body, matchVars, mainVars>>

NextLabel == Label

SpecLabel == InitLabel /\ [][NextLabel]_vars

\* C7 as stated: the label is the body with only the first matching
\* separator token (in the order _vs_, _VS_, _v_, _) replaced.
C7_Original ==
    pc = "labelled" => pretty_name = FirstMatchLabel(series_body)

\* C7 amended: the four replacements are applied one after another, each to
\* the result of the one before, so the lower-priority ones still act after
\* a higher-priority token has matched: no underscore of the body survives,
\* every underscore becomes a space, the length is kept, and the only other
\* characters that change are the V and S of a _VS_ token, to lower case.
C7_Cumulative ==
    pc = "labelled" =>
        /\ Len(pretty_name) = Len(series_body)
        /\ \A i \in 1..Len(series_body) :
              LET b == series_body[i]
                  c == pretty_name[i]
              IN  /\ c # "_"
                  /\ b = "_" => c = " "
                  /\ b \notin {"_", "V", "S"} => c = b
                  /\ b = "V" => \/ c = "V"
                                \/ /\ c = "v" /\ i > 1 /\ i + 2 <= Len(series_body)
                                   /\ SubSeq(series_body, i - 1, i + 2) = Tok_VS
                  /\ b = "S" => \/ c = "S"
                                \/ /\ c = "s" /\ i > 2 /\ i + 1 <= Len(series_body)
                                   /\ SubSeq(series_body, i - 2, i + 1) = Tok_VS

\* a body in which _vs_ matched and another underscore was replaced as well
C7_Witness ==
    /\ pc = "labelled"
    /\ Contains(series_body, Tok_vs)
    /\ pretty_name # FirstMatchLabel(series_body)
    /\ Contains(pretty_name, Sp_vs)

---------------------------------------------------------------------------
(* Hero table: lines 46-47, 62-76 *)

\* the hero table of the run: a hero with a localized name and one without
hero_list ==
    << [id |-> 1, name |-> <<"npc_dota_hero_", "axe">>, localized_name |-> <<"Axe">>],
       [id |-> 2, name |-> <<"npc_dota_hero_", "bane">>] >>

\* internal_name.replace("npc_dota_hero_", "")
clean_hero_filename(internal_name) ==
    Replace(internal_name, <<"npc_dota_hero_">>, <<>>)

\* one entry of hero_dict, lines 68-76
HeroEntry(h) ==
    LET internal_name == Get(h, "name", <<>>)
        localized     == Get(h, "localized_name",
                             Get(h, "localized", Get(h, "name", internal_name)))
        clean_name    == clean_hero_filename(internal_name)
    IN  [image          |-> clean_name \o <<".png">>,
         clean_name     |-> clean_name,
         localized_name |-> localized]

\* hero_dict, keyed by str(id); a later hero with the same id overwrites
hero_dict ==
    [k \in {ToString(hero_list[i].id) : i \in 1..Len(hero_list)} |->
        LET last == CHOOSE i \in 1..Len(hero_list) :
                        /\ ToString(hero_list[i].id) = k
                        /\ \A j \in 1..Len(hero_list) :
                              ToString(hero_list[j].id) = k => j <= i
        IN  HeroEntry(hero_list[last])]

\* str(hid) if hid is not None else ""
HidStr(d) == IF "hero_id" \in DOMAIN d THEN ToString(d.hero_id) ELSE ""

\* the default of heroes_map.get on line 165
UnknownHero == [image |-> <<>>, clean_name |-> <<>>, localized_name |-> <<"Unknown">>]

\* a default that embeds the id in the fallback name
UnknownHeroWithId(hid_str) ==
    [image |-> <<>>, clean_name |-> <<>>, localized_name |-> <<"Unknown", hid_str>>]

DefaultHero(hid_str) == UnknownHero

\* heroes_map.get(hid_str, {...}), line 165
HeroInfo(heroes_map, hid_str) == Get(heroes_map, hid_str, DefaultHero(hid_str))

---------------------------------------------------------------------------
(* generate_match_html: lines 130-224 *)

\* sorted(..., key=...) and list.sort(key=...) on <<key, item>> pairs:
\* stable, an item goes after every earlier item whose key is not larger
RECURSIVE SortedPairs(_)
SortedPairs(ps) ==
    IF ps = <<>> THEN <<>>
    ELSE LET init == SortedPairs(SubSeq(ps, 1, Len(ps) - 1))
             x    == ps[Len(ps)]
             n    == Cardinality({i \in 1..Len(init) : init[i][1] <= x[1]})
         IN  SubSeq(init, 1, n) \o <<x>> \o SubSeq(init, n + 1, Len(init))

\* the list left as it is
Unsorted(ps) == ps

StableSort(ps) == SortedPairs(ps)

OrderOf(item) == Get(item, "order", 0)

\* sorted(data.get("picks_bans", []), key=lambda x: x.get("order", 0))
SortPicksBans(d) ==
    LET raw == Get(d, "picks_bans", <<>>)
        srt == StableSort([i \in 1..Len(raw) |-> <<OrderOf(raw[i]), raw[i]>>])
    IN  [i \in 1..Len(srt) |-> srt[i][2]]

Radiant == <<"R", "a", "d", "i", "a", "n", "t">>
Dire    == <<"D", "i", "r", "e">>

TeamName(d, key, default) == Get(Get(d, key, <<>>), "name", default)

\* line 135 (and line 277, which builds the same text)
TitleText(d) ==
    IF Get(d, "radiant_win", FALSE)
    THEN <<TeamName(d, "radiant_team", Radiant), "(Winner) vs", TeamName(d, "dire_team", Dire)>>
    ELSE <<TeamName(d, "radiant_team", Radiant), "vs", TeamName(d, "dire_team", Dire), "(Winner)">>

\* lines 138-158: players without a hero id are skipped, a later player
\* with the same hero overwrites.  The percentage strings (lane_eff,
\* benchmarks) are formatted floats and are left out of the entry.
PlayerMap(d) ==
    LET ps   == Get(d, "players", <<>>)
        have == {i \in 1..Len(ps) : "hero_id" \in DOMAIN ps[i]}
    IN  [k \in {HidStr(ps[i]) : i \in have} |->
            LET last == CHOOSE i \in have :
                            /\ HidStr(ps[i]) = k
                            /\ \A j \in have : HidStr(ps[j]) = k => j <= i
                p    == ps[last]
            IN  [name    |-> Get(p, "name", "Unknown"),
                 kda     |-> <<Get(p, "kills", 0), Get(p, "deaths", 0), Get(p, "assists", 0)>>,
                 gpm_xpm |-> <<Get(p, "gold_per_min", 0), Get(p, "xp_per_min", 0)>>]]

\* lines 163-168: what the loop looks up for one item
Lookup(heroes_map, item) ==
    LET hid_str   == HidStr(item)
        hero_info == HeroInfo(heroes_map, hid_str)
        image     == Get(hero_info, "image", <<>>)
    IN  [hid_str         |-> hid_str,
         hero_image_name |-> image,
         hero_clean      |-> Get(hero_info, "clean_name", Replace(image, <<".png">>, <<>>)),
         hero_local      |-> Get(hero_info, "localized_name", <<"Unknown">>)]

\* lines 169-194: the record of one item, (order, label + player_text)
ItemRecord(heroes_map, player_map, item) ==
    LET lk        == Lookup(heroes_map, item)
        is_pick   == Get(item, "is_pick", FALSE)
        order_num == OrderOf(item) + 1
        label     == <<order_num, IF is_pick THEN "Pick:" ELSE "Ban:">>
        player_text ==
            IF is_pick
            THEN IF lk.hid_str \in DOMAIN player_map
                 THEN LET player == player_map[lk.hid_str]
                      IN  <<"player-info",
                            <<"../../../dictionaries/image/">> \o lk.hero_clean \o <<".png">>,
                            player.name, player.kda, player.gpm_xpm>>
                 ELSE <<"No player info">>
            ELSE <<"hero-name", lk.hero_local>>
    IN  <<OrderOf(item), <<label, player_text>>>>

\* a projector that skips the items that carry no hero id
RECURSIVE SideOfKnownOnly(_, _, _, _)
SideOfKnownOnly(heroes_map, player_map, items, radiant) ==
    IF items = <<>> THEN <<>>
    ELSE LET rest == SideOfKnownOnly(heroes_map, player_map, Tail(items), radiant)
             item == Head(items)
         IN  IF "hero_id" \in DOMAIN item /\ (Get(item, "team", 0) = 0) = radiant
             THEN <<ItemRecord(heroes_map, player_map, item)>> \o rest
             ELSE rest

\* lines 161-196: the items whose team is 0, or is not, in loop order
RECURSIVE SideOf(_, _, _, _)
SideOf(heroes_map, player_map, items, radiant) ==
    IF items = <<>> THEN <<>>
    ELSE LET rest == SideOf(heroes_map, player_map, Tail(items), radiant)
             item == Head(items)
         IN  IF (Get(item, "team", 0) = 0) = radiant
             THEN <<ItemRecord(heroes_map, player_map, item)>> \o rest
             ELSE rest

\* lines 161-199: one side, appended in loop order and then sorted by order
Side(heroes_map, player_map, items, radiant) ==
    LET recs == SideOf(heroes_map, player_map, items, radiant)
        srt  == SortedPairs([i \in 1..Len(recs) |-> <<recs[i][1], recs[i]>>])
    IN  [i \in 1..Len(srt) |-> srt[i][2]]

EmptyCell == <<>>

MaxLen(a, b) == IF Len(a) >= Len(b) THEN Len(a) ELSE Len(b)

\* rows up to the shorter side only
ZipRows(radiant_side, dire_side) ==
    [i \in 1..(Len(radiant_side) + Len(dire_side) - MaxLen(radiant_side, dire_side)) |->
        <<radiant_side[i][2], dire_side[i][2]>>]

\* lines 212-218
TableRows(radiant_side, dire_side) ==
    [i \in 1..MaxLen(radiant_side, dire_side) |->
        << IF i <= Len(radiant_side) THEN radiant_side[i][2] ELSE EmptyCell,
           IF i <= Len(dire_side) THEN dire_side[i][2] ELSE EmptyCell >>]

\* the whole of generate_match_html(data, heroes_map, ...), as what it writes
generate_match_html(d, heroes_map, title_text_override) ==
    LET player_map   == PlayerMap(d)
        picks_bans   == SortPicksBans(d)
        radiant_side == Side(heroes_map, player_map, picks_bans, TRUE)
        dire_side    == Side(heroes_map, player_map, picks_bans, FALSE)
    IN  [title_text   |-> IF title_text_override # <<>> THEN title_text_override
                          ELSE TitleText(d),
         picks_bans   |-> picks_bans,
         lookups      |-> [i \in 1..Len(picks_bans) |-> Lookup(heroes_map, picks_bans[i])],
         radiant_side |-> radiant_side,
         dire_side    |-> dire_side,
         rows         |-> TableRows(radiant_side, dire_side)]

\* pick/ban entries: every order, side, kind and hero (1 is in the hero
\* table and has a player, 9 is in neither), entries with no hero_id, and
\* an entry with nothing but a hero
DraftEntries ==
    {[order |-> o, team |-> t, is_pick |-> p, hero_id |-> h] :
        o \in 0..2, t \in {0, 1}, p \in BOOLEAN, h \in {1, 9}}
    \cup {[order |-> o, team |-> t, is_pick |-> p] :
        o \in 0..2, t \in {0, 1}, p \in BOOLEAN}
    \cup {[hero_id |-> 2]}

\* the rest of a match record: complete, and with everything optional missing
MatchHeaders ==
    { [radiant_team |-> [name |-> <<"A">>], dire_team |-> [name |-> <<"B">>],
       radiant_win |-> TRUE,
       players |-> << [name |-> "coach"],
                      [hero_id |-> 1, name |-> "p1", kills |-> 3],
                      [hero_id |-> 1, name |-> "p2", kills |-> 4, deaths |-> 1] >>],
      [dire_team |-> [name |-> <<"B">>], players |-> <<>>] }

InitMatch ==
    /\ pc = "render"
    /\ \E h \in MatchHeaders :
          \/ data = h
          \/ \E pb \in SeqsUpTo(DraftEntries, MaxDraft) : data = h @@ ("picks_bans" :> pb)
    /\ page = Unused
    /\ IdleName /\ IdleLabel /\ IdleMain

Render ==
    /\ pc = "render"
    /\ page' = generate_match_html(data, hero_dict, <<>>)
    /\ pc' = "rendered"
    /\ UNCHANGED <<nameVars, labelVars, data, mainVars>>

NextMatch == Render

SpecMatch == InitMatch /\ [][NextMatch]_vars

RawPicksBans == Get(data, "picks_bans", <<>>)

NonDecreasing(items) ==
    \A i, j \in 1..Len(items) : i < j => OrderOf(items[i]) <= OrderOf(items[j])

StrictlyIncreasing(items) ==
    \A i, j \in 1..Len(items) : i < j => OrderOf(items[i]) < OrderOf(items[j])

\* C3 as stated: after parsing, picks_bans is sorted by order and its order
\* values are strictly increasing (no two entries share an order value).
C3_Original ==
    pc = "rendered" =>
        /\ NonDecreasing(page.picks_bans)
        /\ StrictlyIncreasing(page.picks_bans)

\* C3 amended: after parsing, picks_bans is sorted by order (never
\* decreasing, and sorting it again changes nothing); its order values are
\* strictly increasing exactly when no two entries of the input carry the
\* same order value (a missing order counting as 0): entries with equal
\* order values are all kept, in their input order.
C3_DraftOrder ==
    pc = "rendered" =>
        /\ NonDecreasing(page.picks_bans)
        /\ SortPicksBans([picks_bans |-> page.picks_bans]) = page.picks_bans
        /\ Len(page.picks_bans) = Len(RawPicksBans)
        /\ StrictlyIncreasing(page.picks_bans) <=>
              \A i, j \in 1..Len(RawPicksBans) :
                  i # j => OrderOf(RawPicksBans[i]) # OrderOf(RawPicksBans[j])
        /\ \A i, j \in 1..Len(RawPicksBans) :
              (i < j /\ OrderOf(RawPicksBans[i]) = OrderOf(RawPicksBans[j])
                     /\ RawPicksBans[i] # RawPicksBans[j]) =>
                  \E a, b \in 1..Len(page.picks_bans) :
                      /\ a < b
                      /\ page.picks_bans[a] = RawPicksBans[i]
                      /\ page.picks_bans[b] = RawPicksBans[j]

\* an input given out of order has been put in order
C3_Witness ==
    /\ pc = "rendered"
    /\ Len(RawPicksBans) = 2
    /\ OrderOf(RawPicksBans[1]) > OrderOf(RawPicksBans[2])
    /\ page.picks_bans # RawPicksBans

\* C4: the table has exactly max(|first side|, |second side|) rows; row i
\* holds first-side entry i on the left and second-side entry i on the
\* right, and beyond the shorter side's length that side's cell is empty
\* (an entry's own cell never is).
C4_RowPadding ==
    pc = "rendered" =>
        LET r == page.radiant_side
            d == page.dire_side
            n == Len(page.rows)
        IN  /\ n >= Len(r) /\ n >= Len(d) /\ n \in {Len(r), Len(d)}
            /\ \A i \in 1..n :
                  /\ i <= Len(r) => page.rows[i][1] = r[i][2] /\ r[i][2] # EmptyCell
                  /\ i >  Len(r) => page.rows[i][1] = EmptyCell
                  /\ i <= Len(d) => page.rows[i][2] = d[i][2] /\ d[i][2] # EmptyCell
                  /\ i >  Len(d) => page.rows[i][2] = EmptyCell

\* a table whose second side is the shorter one and is padded
C4_Witness ==
    /\ pc = "rendered"
    /\ Len(page.radiant_side) = 2
    /\ Len(page.dire_side) < 2
    /\ Len(page.rows) = 2
    /\ page.rows[2][2] = EmptyCell

CountIn(seq, x) == Cardinality({i \in 1..Len(seq) : seq[i] = x})

\* C9: every entry of the input picks_bans appears exactly once, on the
\* first side iff its team is 0, so the two sides together are as long as
\* the input; entries with no hero_id and picks without a player record are
\* kept (the latter with the placeholder), and each side is in ascending order.
C9_NoEntryDropped ==
    pc = "rendered" =>
        LET raw  == RawPicksBans
            pm   == PlayerMap(data)
            r    == page.radiant_side
            d    == page.dire_side
            Rec(i) == ItemRecord(hero_dict, pm, raw[i])
        IN  /\ Len(r) + Len(d) = Len(raw)
            /\ \A i \in 1..Len(raw) :
                  /\ CountIn(r, Rec(i)) =
                        Cardinality({j \in 1..Len(raw) :
                            Rec(j) = Rec(i) /\ Get(raw[j], "team", 0) = 0})
                  /\ CountIn(d, Rec(i)) =
                        Cardinality({j \in 1..Len(raw) :
                            Rec(j) = Rec(i) /\ Get(raw[j], "team", 0) # 0})
                  /\ (Get(raw[i], "is_pick", FALSE) /\ HidStr(raw[i]) \notin DOMAIN pm)
                        => Rec(i)[2][2] = <<"No player info">>
            /\ \A i, j \in 1..Len(r) : i < j => r[i][1] <= r[j][1]
            /\ \A i, j \in 1..Len(d) : i < j => d[i][1] <= d[j][1]

\* an entry with no hero_id and a pick without a player record, both kept
C9_Witness ==
    /\ pc = "rendered"
    /\ Len(RawPicksBans) = 2
    /\ "hero_id" \notin DOMAIN RawPicksBans[1]
    /\ "hero_id" \in DOMAIN RawPicksBans[2]
    /\ RawPicksBans[2].hero_id = 9 /\ RawPicksBans[2].is_pick
    /\ Len(page.radiant_side) + Len(page.dire_side) = 2
    /\ \E i \in 1..Len(page.dire_side) : page.dire_side[i][2][2] = <<"No player info">>

UnknownLookups ==
    {i \in 1..Len(page.lookups) : page.lookups[i].hid_str \notin DOMAIN hero_dict}

\* C6 as stated: for a hero id that is not in the hero table the display
\* name is the fallback "Unknown" with the id embedded in it, and the image
\* name is empty.
C6_Original ==
    pc = "rendered" =>
        \A i \in UnknownLookups :
            LET lk == page.lookups[i]
            IN  /\ lk.hero_local # <<>>
                /\ lk.hero_local[1] = "Unknown"
                /\ lk.hid_str # "" =>
                      \E k \in 1..Len(lk.hero_local) : lk.hero_local[k] = lk.hid_str
                /\ lk.hero_image_name = <<>>

\* C6 amended: for a hero id that is not in the hero table (and for an
\* entry with no hero id) the lookup succeeds and the display name is the
\* fixed fallback "Unknown", with no id in it, and the image name is empty.
C6_UnknownHero ==
    pc = "rendered" =>
        \A i \in UnknownLookups :
            LET lk == page.lookups[i]
            IN  /\ lk.hero_local = <<"Unknown">>
                /\ lk.hero_image_name = <<>>
                /\ lk.hero_clean = <<>>

\* an entry with an id the table lacks and an entry with no id, both looked up
C6_Witness ==
    /\ pc = "rendered"
    /\ \E i, j \in UnknownLookups :
          /\ page.lookups[i].hid_str = "9"
          /\ page.lookups[j].hid_str = ""

---------------------------------------------------------------------------
(* Utilities of the main loop: lines 39-40, 85-90, 297, 325 *)

\* the code points of the characters that names are sorted by
CharCode(c) ==
    CASE c = " " -> 32 [] c = "(" -> 40 [] c = ")" -> 41 [] c = "." -> 46
      [] c = "1" -> 49 [] c = "2" -> 50 [] c = "3" -> 51 [] c = ":" -> 58
      [] c = "A" -> 65 [] c = "B" -> 66 [] c = "D" -> 68 [] c = "G" -> 71
      [] c = "R" -> 82 [] c = "T" -> 84 [] c = "_" -> 95 [] c = "a" -> 97
      [] c = "d" -> 100 [] c = "e" -> 101 [] c = "i" -> 105 [] c = "j" -> 106
      [] c = "n" -> 110 [] c = "o" -> 111 [] c = "r" -> 114 [] c = "s" -> 115
      [] c = "t" -> 116 [] c = "x" -> 120

\* a < b for str
RECURSIVE LexLess(_, _)
LexLess(a, b) ==
    IF a = <<>> THEN b # <<>>
    ELSE IF b = <<>> THEN FALSE
    ELSE IF a[1] = b[1] THEN LexLess(Tail(a), Tail(b))
    ELSE CharCode(a[1]) < CharCode(b[1])

\* sorted(...) of a set of distinct strings
RECURSIVE SortedNames(_)
SortedNames(S) ==
    IF S = {} THEN <<>>
    ELSE LET m == CHOOSE x \in S : \A y \in S \ {x} : LexLess(x, y)
         IN  <<m>> \o SortedNames(S \ {m})

RECURSIVE Filter(_, _)
Filter(s, drop) ==
    IF s = <<>> THEN <<>>
    ELSE IF Head(s) \in drop THEN Filter(Tail(s), drop)
    ELSE <<Head(s)>> \o Filter(Tail(s), drop)

PathHostile == {"\\", "/", ":", "\"", "*", "?", "<", ">", "|"}

\* re.sub(r'[\\/:"*?<>|]+', '', name).replace(" ", "_")
sanitize_folder_name(name) == Replace(Filter(name, PathHostile), <<" ">>, <<"_">>)

\* urllib.parse.quote: the characters it escapes among those in use
PercentCode(c) ==
    CASE c = " " -> <<"%", "2", "0">> [] c = "(" -> <<"%", "2", "8">>
      [] c = ")" -> <<"%", "2", "9">> [] c = ":" -> <<"%", "3", "A">>
      [] OTHER -> <<c>>

RECURSIVE Quote(_)
Quote(s) == IF s = <<>> THEN <<>> ELSE PercentCode(Head(s)) \o Quote(Tail(s))

\* str(game_no)
RECURSIVE StrOfInt(_)
StrOfInt(n) ==
    LET d == <<"0", "1", "2", "3", "4", "5", "6", "7", "8", "9">>[(n % 10) + 1]
    IN  IF n < 10 THEN <<d>> ELSE StrOfInt(n \div 10) \o <<d>>

\* lines 84-90: tournament -> its sorted .json file names, for the
\* tournaments that have any
ScanTournaments(dk) ==
    LET files(t) == SortedNames({sl[2] : sl \in {x \in DOMAIN dk :
                                     x[1] = t /\ EndsWithJson(x[2])}})
    IN  [t \in {sl[1] : sl \in {x \in DOMAIN dk : EndsWithJson(x[2])}} |-> files(t)]

---------------------------------------------------------------------------
(* Main processing loop: lines 229-308 *)

\* lines 232-242: series_groups of one tournament, in insertion order
RECURSIVE GroupFiles(_, _)
GroupFiles(files, groups) ==
    IF files = <<>> THEN groups
    ELSE LET id    == ResolveIdentity(Head(files))
             at    == {i \in 1..Len(groups) : groups[i].series_key = id.series_key}
             entry == [game_no |-> id.game_no, fname |-> Head(files),
                       prefix |-> id.prefix, body |-> id.body]
         IN  IF ~id.grouped THEN GroupFiles(Tail(files), groups)
             ELSE IF at = {}
             THEN GroupFiles(Tail(files),
                      Append(groups, [series_key |-> id.series_key, games |-> <<entry>>]))
             ELSE GroupFiles(Tail(files),
                      [groups EXCEPT ![MinOf(at)].games = Append(@, entry)])

\* sorted(games, key=lambda x: x[0])
GamesSorted(games) ==
    LET srt == SortedPairs([i \in 1..Len(games) |-> <<games[i].game_no, games[i]>>])
    IN  [i \in 1..Len(srt) |-> srt[i][2]]

\* winner_counter[game_winner] += 1: a Counter keeps its keys in insertion order
CounterAdd(c, k) ==
    LET at == {i \in 1..Len(c) : c[i][1] = k}
    IN  IF at = {} THEN Append(c, <<k, 1>>)
        ELSE [c EXCEPT ![MinOf(at)] = <<k, @[2] + 1>>]

\* the last of the keys with the highest count
LastMax(c) ==
    c[CHOOSE i \in 1..Len(c) :
        /\ \A j \in 1..Len(c) : c[j][2] <= c[i][2]
        /\ \A j \in 1..Len(c) : c[j][2] = c[i][2] => j <= i][1]

\* winner_counter.most_common(1)[0][0]: heapq.nlargest(1, ...) is max(), which
\* returns the first of the keys with the highest count
FirstMax(c) ==
    c[CHOOSE i \in 1..Len(c) :
        /\ \A j \in 1..Len(c) : c[j][2] <= c[i][2]
        /\ \A j \in 1..Len(c) : c[j][2] = c[i][2] => i <= j][1]

MostCommon1(c) == FirstMax(c)

\* lines 250-260: load the games in order.  load_json raising is caught and
\* printed; data.get on JSON that is not a mapping raises outside the try
RECURSIVE LoadGames(_, _, _, _)
LoadGames(dk, tourn, games, acc) ==
    IF games = <<>> \/ acc.raised THEN acc
    ELSE LET g == Head(games)
             f == dk[<<tourn, g.fname>>]
         IN  IF ~f.readable
             THEN LoadGames(dk, tourn, Tail(games),
                      [acc EXCEPT !.printed = Append(@, <<"Cannot read", tourn, g.fname>>)])
             ELSE IF ~f.is_dict
             THEN [acc EXCEPT !.raised = TRUE]
             ELSE LET d            == f.value
                      radiant_name == TeamName(d, "radiant_team", Radiant)
                      dire_name    == TeamName(d, "dire_team", Dire)
                      radiant_win  == Get(d, "radiant_win", FALSE)
                      game_winner  == IF radiant_win THEN radiant_name ELSE dire_name
                  IN  LoadGames(dk, tourn, Tail(games),
                          [acc EXCEPT
                              !.winner_counter = CounterAdd(@, game_winner),
                              !.per_game_meta  = Append(@,
                                  [game_no |-> g.game_no, data |-> d,
                                   game_winner |-> game_winner,
                                   radiant_win |-> radiant_win])])

\* _, series_body = series_key.split(".", 1)
SplitDotRest(s) ==
    SubSeq(s, MinOf({i \in 1..Len(s) : s[i] = "."}) + 1, Len(s))

\* f"Game{game_no}_{safe_game_winner}.html", lines 274-275 and 295-296
GameFileName(meta) ==
    <<"G", "a", "m", "e">> \o StrOfInt(meta.game_no) \o <<"_">>
        \o sanitize_folder_name(meta.game_winner) \o <<".", "h", "t", "m", "l">>

IndexHtml == <<"i", "n", "d", "e", "x", ".", "h", "t", "m", "l">>

\* a file written straight into the tournament's folder
FlatPath(tourn, folder, name) == <<tourn, name>>

\* os.path.join(MATCHES_DIR, tourn_name, safe_series_folder_name, name)
OutPath(tourn, folder, name) == <<tourn, folder, name>>

\* lines 270-279: the game pages written one after another, a later one
\* replacing an earlier one at the same path
RECURSIVE WritePages(_, _, _, _)
WritePages(metas, tourn, folder, st) ==
    IF metas = <<>> THEN st
    ELSE LET meta     == Head(metas)
             out_path == OutPath(tourn, folder, GameFileName(meta))
             html     == generate_match_html(meta.data, hero_dict, TitleText(meta.data))
         IN  WritePages(Tail(metas), tourn, folder,
                 [st EXCEPT !.out_files = (out_path :> html) @@ @,
                            !.printed   = Append(@, <<"Generated", out_path>>)])

\* lines 282-301: the series index page
SeriesIndexPage(metas, pretty, series_winner) ==
    [title   |-> pretty,
     heading |-> <<pretty, series_winner>>,
     links   |-> [i \in 1..Len(metas) |->
                    [href |-> Quote(GameFileName(metas[i])),
                     text |-> <<metas[i].game_no, metas[i].game_winner>>]]]

\* lines 246-308 for one series: st is the record of the variables written
ProcessOneSeries(dk, tourn, group, st) ==
    LET loaded == LoadGames(dk, tourn, GamesSorted(group.games),
                      [per_game_meta |-> <<>>, winner_counter |-> <<>>,
                       printed |-> st.printed, raised |-> FALSE])
        metas  == loaded.per_game_meta
    IN  IF loaded.raised THEN [st EXCEPT !.printed = loaded.printed, !.raised = TRUE]
        ELSE IF metas = <<>> THEN [st EXCEPT !.printed = loaded.printed]
        ELSE LET body_of_key   == SplitDotRest(group.series_key)
                 pretty        == pretty_team_name_from_body(body_of_key)
                 series_winner == MostCommon1(loaded.winner_counter)
                 folder        == sanitize_folder_name(
                                      group.series_key \o <<"(">> \o series_winner \o <<")">>)
                 st1 == WritePages(metas, tourn, folder,
                            [st EXCEPT !.printed = loaded.printed])
                 index_path == OutPath(tourn, folder, IndexHtml)
             IN  [st1 EXCEPT
                    !.out_files = (index_path :> SeriesIndexPage(metas, pretty, series_winner)) @@ @,
                    !.printed   = Append(@, <<"Series index created", index_path>>),
                    !.tournament_series_index =
                        (tourn :> ((folder :> [pretty_name   |-> pretty,
                                               series_winner |-> series_winner,
                                               series_path   |-> <<tourn, folder>>])
                                   @@ @[tourn])) @@ @,
                    !.series_log = Append(@,
                        [tourn |-> tourn, series_key |-> group.series_key,
                         folder |-> folder, per_game_meta |-> metas,
                         winner_counter |-> loaded.winner_counter,
                         series_winner |-> series_winner])]

\* lines 321-328: the main index, tournaments and series folders sorted
MainIndex(tsi) ==
    LET ts == SortedNames(DOMAIN tsi)
    IN  [i \in 1..Len(ts) |->
            LET fs == SortedNames(DOMAIN tsi[ts[i]])
            IN  [tourn |-> ts[i],
                 items |-> [j \in 1..Len(fs) |->
                    [link  |-> <<".", ".", "/", "m", "a", "t", "c", "h", "e", "s", "/">>
                                 \o Quote(ts[i]) \o <<"/">> \o Quote(fs[j])
                                 \o <<"/">> \o IndexHtml,
                     label |-> <<tsi[ts[i]][fs[j]].pretty_name,
                                 tsi[ts[i]][fs[j]].series_winner>>]]]]

RemoveAt(s, k) == SubSeq(s, 1, k - 1) \o SubSeq(s, k + 1, Len(s))

Written ==
    [out_files |-> out_files, printed |-> printed, series_log |-> series_log,
     tournament_series_index |-> tournament_series_index, raised |-> FALSE]

\* files: unreadable or not JSON; JSON that is not a mapping; match records
Unreadable == [readable |-> FALSE]
NotAMapping == [readable |-> TRUE, is_dict |-> FALSE]
MatchFile(d) == [readable |-> TRUE, is_dict |-> TRUE, value |-> d]

FileContents ==
    { Unreadable, NotAMapping,
      MatchFile([radiant_team |-> [name |-> <<"A">>], dire_team |-> [name |-> <<"B">>],
                 radiant_win |-> TRUE,
                 picks_bans |-> <<[order |-> 1, team |-> 1, is_pick |-> FALSE, hero_id |-> 9],
                                  [order |-> 0, team |-> 0, is_pick |-> TRUE, hero_id |-> 1]>>,
                 players |-> <<[hero_id |-> 1, name |-> "p1"]>>]),
      MatchFile([radiant_team |-> [name |-> <<"A">>], dire_team |-> [name |-> <<"B">>],
                 radiant_win |-> FALSE]),
      MatchFile([radiant_team |-> [name |-> <<"A">>]]) }

T1 == <<"T", "1">>
T2 == <<"T", "2">>

\* 1.1_a_G1.json, 1.2_a_G1.json and 1.1_a_G2.json are games 1, 1 and 2 of
\* series 1.a; 1_a:_G1.json is series 1.a: ; x.json is no match file
FileNames ==
    { <<"1", ".", "1", "_", "a", "_", "G", "1">> \o DotJson,
      <<"1", ".", "2", "_", "a", "_", "G", "1">> \o DotJson,
      <<"1", ".", "1", "_", "a", "_", "G", "2">> \o DotJson,
      <<"1", "_", "a", ":", "_", "G", "1">> \o DotJson,
      <<"x">> \o DotJson }

FileSlots ==
    {<<T1, n>> : n \in FileNames}
        \cup {<<T2, <<"1", ".", "1", "_", "a", "_", "G", "1">> \o DotJson>>}

InitMain ==
    /\ pc = "group"
    /\ \E S \in SUBSET FileSlots :
          /\ Cardinality(S) <= MaxFiles
          /\ disk \in [S -> FileContents]
    /\ tournaments = ScanTournaments(disk)
    /\ pending = SortedNames(DOMAIN tournaments)
    /\ cur = Unused
    /\ series_groups = <<>>
    /\ tournament_series_index = <<>>
    /\ out_files = <<>>
    /\ printed = <<>>
    /\ series_log = <<>>
    /\ main_index = Unused
    /\ IdleName /\ IdleLabel /\ IdleMatch

\* lines 231-244: the outer loop takes the k-th pending tournament
GroupTournament(k) ==
    /\ pc = "group"
    /\ k \in 1..Len(pending)
    /\ LET groups == GroupFiles(tournaments[pending[k]], <<>>)
       IN  /\ series_groups' = groups
           /\ pc' = IF groups = <<>> THEN "group" ELSE "series"
    /\ cur' = pending[k]
    /\ pending' = RemoveAt(pending, k)
    /\ tournament_series_index' = (pending[k] :> <<>>) @@ tournament_series_index
    /\ UNCHANGED <<nameVars, labelVars, matchVars, disk, tournaments,
                   out_files, printed, series_log, main_index>>

\* lines 246-308: the inner loop takes the k-th series left; an exception
\* that nothing catches ends the script
ProcessSeries(k) ==
    /\ pc = "series"
    /\ k \in 1..Len(series_groups)
    /\ \E st \in {ProcessOneSeries(disk, cur, series_groups[k], Written)} :
           /\ printed' = st.printed
           /\ out_files' = st.out_files
           /\ series_log' = st.series_log
           /\ tournament_series_index' = st.tournament_series_index
           /\ IF st.raised
              THEN /\ pc' = "aborted"
                   /\ UNCHANGED series_groups
              ELSE /\ series_groups' = RemoveAt(series_groups, k)
                   /\ pc' = IF Len(series_groups) = 1 THEN "group" ELSE "series"
    /\ UNCHANGED <<nameVars, labelVars, matchVars, disk, tournaments,
                   pending, cur, main_index>>

\* lines 313-333
WriteMainIndex ==
    /\ pc = "group"
    /\ pending = <<>>
    /\ main_index' = MainIndex(tournament_series_index)
    /\ pc' = "done"
    /\ UNCHANGED <<nameVars, labelVars, matchVars, disk, tournaments, pending, cur,
                   series_groups, tournament_series_index, out_files, printed,
                   series_log>>

\* the script: dicts are iterated in insertion order
Next ==
    \/ GroupTournament(1)
    \/ ProcessSeries(1)
    \/ WriteMainIndex

Spec == InitMain /\ [][Next]_vars

\* the loops taking tournaments and series in any order
NextOrder ==
    \/ \E k \in 1..MaxFiles : GroupTournament(k)
    \/ \E k \in 1..MaxFiles : ProcessSeries(k)
    \/ WriteMainIndex

SpecOrder == InitMain /\ [][NextOrder]_vars

\* the script run from start to end in its own order, as one value
RECURSIVE RunSeries(_, _, _, _)
RunSeries(dk, tourn, groups, st) ==
    IF groups = <<>> \/ st.raised THEN st
    ELSE RunSeries(dk, tourn, Tail(groups),
             ProcessOneSeries(dk, tourn, Head(groups), st))

RECURSIVE RunTournaments(_, _, _, _)
RunTournaments(dk, ts, names, st) ==
    IF names = <<>> \/ st.raised THEN st
    ELSE RunTournaments(dk, ts, Tail(names),
             RunSeries(dk, Head(names), GroupFiles(ts[Head(names)], <<>>),
                 [st EXCEPT !.tournament_series_index = (Head(names) :> <<>>) @@ @]))

CodeOrderRun ==
    RunTournaments(disk, tournaments, SortedNames(DOMAIN tournaments),
        [out_files |-> <<>>, printed |-> <<>>, series_log |-> <<>>,
         tournament_series_index |-> <<>>, raised |-> FALSE])

---------------------------------------------------------------------------
(* Claims about the main loop *)

WinsOf(metas, name) == Cardinality({i \in 1..Len(metas) : metas[i].game_winner = name})

FirstWinOf(metas, name) == MinOf({i \in 1..Len(metas) : metas[i].game_winner = name})

\* C1: for every series with a loaded game, series_winner is the name with
\* strictly more per-game wins than any other; among names tied for the
\* most wins it is the one whose first winning game comes earliest when the
\* games are scanned in ascending game_number order.
C1_SeriesWinner ==
    \A k \in 1..Len(series_log) :
        LET metas == series_log[k].per_game_meta
            w     == series_log[k].series_winner
        IN  /\ metas # <<>>
            /\ \A i, j \in 1..Len(metas) : i < j => metas[i].game_no <= metas[j].game_no
            /\ \E i \in 1..Len(metas) : metas[i].game_winner = w
            /\ \A i \in 1..Len(metas) :
                  LET n == metas[i].game_winner
                  IN  n # w =>
                        \/ WinsOf(metas, w) > WinsOf(metas, n)
                        \/ /\ WinsOf(metas, w) = WinsOf(metas, n)
                           /\ FirstWinOf(metas, w) < FirstWinOf(metas, n)

\* a series tied 1-1 whose winner is the name that won the earlier game,
\* although the file of the later game is listed first
C1_Witness ==
    /\ pc = "done"
    /\ \E k \in 1..Len(series_log) :
          LET metas == series_log[k].per_game_meta
          IN  /\ Len(metas) = 2
              /\ metas[1].game_no = 1 /\ metas[2].game_no = 2
              /\ metas[1].game_winner = <<"B">>
              /\ metas[2].game_winner = <<"A">>
              /\ series_log[k].series_winner = <<"B">>

MatchFilesOnDisk == {sl \in DOMAIN disk : ResolveIdentity(sl[2]).grouped}

MalformedOnDisk ==
    {sl \in MatchFilesOnDisk : ~disk[sl].readable \/ ~disk[sl].is_dict}

RECURSIVE SumLens(_)
SumLens(log) ==
    IF log = <<>> THEN 0 ELSE Len(Head(log).per_game_meta) + SumLens(Tail(log))

\* C2: with K of the N match files malformed (unreadable, not JSON, or JSON
\* that is not a mapping) the run never aborts; it ends with exactly N-K game
\* records and K diagnostics.
C2_SkipAndContinue ==
    /\ pc # "aborted"
    /\ pc = "done" =>
          /\ SumLens(series_log) =
                Cardinality(MatchFilesOnDisk) - Cardinality(MalformedOnDisk)
          /\ Cardinality({i \in 1..Len(printed) : printed[i][1] = "Cannot read"}) =
                Cardinality(MalformedOnDisk)

\* C10: no two games of one series are written to the same page path: a
\* series has as many game pages as loaded games, and each entry of its
\* index list links to a page that holds exactly that game.
C10_EveryGameItsOwnPage ==
    pc = "done" =>
        \A k \in 1..Len(series_log) :
            LET e     == series_log[k]
                metas == e.per_game_meta
            IN  /\ Cardinality({GameFileName(metas[i]) : i \in 1..Len(metas)}) = Len(metas)
                /\ \A i \in 1..Len(metas) :
                      LET path == OutPath(e.tourn, e.folder, GameFileName(metas[i]))
                      IN  /\ path \in DOMAIN out_files
                          /\ out_files[path] =
                                generate_match_html(metas[i].data, hero_dict,
                                                    TitleText(metas[i].data))

Outputs(of, tsi) ==
    [out_files |-> of, tournament_series_index |-> tsi, main_index |-> MainIndex(tsi)]

NoFolderCollision ==
    \A i, j \in 1..Len(series_log) :
        (i # j /\ series_log[i].tourn = series_log[j].tourn)
            => series_log[i].folder # series_log[j].folder

=============================================================================
